---- MODULE Spec2Model ----
(***************************************************************************)
(* Model of app_consulta_cnpj.py: the CNPJCache (file-backed cache with a  *)
(* 30 day freshness window) and CNPJProcessor.run (the enrichment pass     *)
(* over the rows of a spreadsheet, with its three Qt signals).             *)
(*                                                                         *)
(* Python strings that the program manipulates (identifiers, cell and      *)
(* payload values) are sequences of one-character strings; names of        *)
(* columns / payload keys and enumeration tags are TLA+ strings.           *)
(***************************************************************************)
EXTENDS Integers, Sequences, FiniteSets, TLC

VARIABLES
    pc,                 \* position of the thread of control
    fields_to_update,   \* CNPJProcessor.fields_to_update
    input,              \* the spreadsheet at file_path: [cols, rows]
    df,                 \* the DataFrame of run(): [cols, rows]
    total_rows,         \* local of run()
    index,              \* 0-based index of the next row of the loop
    cnpj,               \* local of run(): Unbound until first assigned
    cache,              \* CNPJCache.cache (in memory)
    cache_file,         \* content of the cache file on disk
    now,                \* the wall clock, in ticks
    signals,            \* the signals emitted so far, in order
    output,             \* the written output spreadsheet (NoFile before)
    last,               \* what the last step did (history)
    env,                \* the installed libraries' behaviour
    file_path,          \* CNPJProcessor.file_path
    window,             \* the MainWindow: its fields and widgets
    fetched             \* the keys fetch_cnpj_data returned a payload for,
                        \* in order, during the run (history)

vars == <<pc, fields_to_update, input, df, total_rows, index, cnpj, cache,
          cache_file, now, signals, output, last, env, file_path, window,
          fetched>>

----------------------------------------------------------------------------
(* IEEE-754 binary64 arithmetic of line 77:                                *)
(*     progress = int((index + 1) / total_rows * 100)                      *)
(* Python's / on ints is a correctly rounded float division, * a correctly *)
(* rounded float multiplication (both round to nearest, ties to even),     *)
(* int() truncates.  A float is [i, f, s], standing for (i + 0.f) * 2^-s   *)
(* with i a small integer and f the fraction bits as four digits of base   *)
(* Radix, so that no integer of the computation exceeds 32 bits.           *)

MantBits == 53               \* significand of a Python float (binary64)

RECURSIVE Pow2(_)
Pow2(n) == IF n = 0 THEN 1 ELSE 2 * Pow2(n - 1)

\* the MantBits - 1 fraction bits of a significand 1.f are FracDigits digits
FracDigits == <<1, 2, 3, 4>>
Radix == Pow2((MantBits - 1) \div Len(FracDigits))

\* the number of bits of n >= 1
RECURSIVE BitLen(_)
BitLen(n) == IF n <= 1 THEN 1 ELSE 1 + BitLen(n \div 2)

\* the first n digits of the expansion of r/b (0 <= r < b) in base Radix,
\* and the remainder left after them
RECURSIVE DivDigits(_, _, _)
DivDigits(r, b, n) ==
    IF n = 0 THEN <<<<>>, r>>
    ELSE LET d == DivDigits((r * Radix) % b, b, n - 1)
         IN  <<<<(r * Radix) \div b>> \o d[1], d[2]>>

\* digits * k + carry, digit by digit from the last: <<digits, carry out>>
RECURSIVE MulDigits(_, _, _)
MulDigits(digits, k, carry) ==
    IF digits = <<>> THEN <<<<>>, carry>>
    ELSE LET t == digits[Len(digits)] * k + carry
             h == MulDigits(SubSeq(digits, 1, Len(digits) - 1), k, t \div Radix)
         IN  <<h[1] \o <<t % Radix>>, h[2]>>

\* [i, f, s] with its fraction rounded to the multiple of unit (a power of
\* two below Radix, in units of the last digit) that is nearest to
\* 0.f + rem, where 0 <= rem < 1 unit of the last digit is given as a
\* fraction num/den; ties go to the even multiple
RoundFrac(x, unit, num, den) ==
    LET lastd == x.f[Len(x.f)]
        low   == lastd % unit
        \* twice the dropped part against one unit: (low + num/den) * 2 ? unit
        more  == 2 * low * den + 2 * num > unit * den
        tie   == 2 * low * den + 2 * num = unit * den
        odd   == IF unit = Radix THEN FALSE ELSE (lastd \div unit) % 2 = 1
        up    == more \/ (tie /\ odd)
        kept  == [x.f EXCEPT ![Len(x.f)] = lastd - low]
        add   == MulDigits(kept, 1, IF up THEN unit ELSE 0)
    IN  [i |-> x.i + add[2], f |-> add[1], s |-> x.s]

\* the least s with a * 2^s >= b
RECURSIVE NormShift(_, _)
NormShift(a, b) == IF a >= b THEN 0 ELSE 1 + NormShift(2 * a, b)

\* float(a) / float(b) for integers 1 <= a <= b
FloatDiv(a, b) ==
    LET s  == NormShift(a, b)
        a2 == a * Pow2(s)                     \* b <= a2 < 2b: a2/b = 1.f...
        d  == DivDigits(a2 - b, b, Len(FracDigits))
    IN  RoundFrac([i |-> 1, f |-> d[1], s |-> s], 1, d[2], b)

\* x * float(k) for a float 1 <= x.i + 0.f < 2 and an integer 1 <= k < Radix;
\* the exact product has BitLen(i) - 1 bits more than a significand holds
FloatMulInt(x, k) ==
    LET p == MulDigits(x.f, k, 0)
        i == x.i * k + p[2]
    IN  RoundFrac([i |-> i, f |-> p[1], s |-> x.s], Pow2(BitLen(i) - 1), 0, 1)

\* int(x) for x >= 0: truncation
FloatTrunc(x) == x.i \div Pow2(x.s)

\* line 77
Progress(idx, total) == FloatTrunc(FloatMulInt(FloatDiv(idx + 1, total), 100))

----------------------------------------------------------------------------
(* Values                                                                  *)

None    == [None |-> TRUE]   \* Python's None, where a dict may stand
Unbound == <<"Unbound">>     \* a local variable not assigned yet
NaN     == <<"NaN">>         \* an empty spreadsheet cell (float nan)

PadWidth == 14               \* line 59
Days     == 30               \* line 33

\* A cell read_excel gave a number for holds a tag and the digits of the
\* number: an int when the row keeps it one, a float when pandas made the
\* column (or the row of iterrows) float64, as it does for a column of
\* numbers with an empty cell.
IsInt(cell)   == Len(cell) > 0 /\ cell[1] = "int"
IsFloat(cell) == Len(cell) > 0 /\ cell[1] = "float"

\* str(cell): a text cell is itself, an empty cell is "nan", the int 1234
\* is "1234" and the float 1234.0 is "1234.0"
str(cell) ==
    IF cell = NaN THEN <<"n", "a", "n">>
    ELSE IF IsInt(cell) THEN Tail(cell)
    ELSE IF IsFloat(cell) THEN Tail(cell) \o <<".", "0">>
    ELSE cell

\* s.zfill(width): zeros on the left, after a leading sign
zfill(s, width) ==
    IF Len(s) >= width THEN s
    ELSE LET zeros == [i \in 1..(width - Len(s)) |-> "0"]
         IN  IF Len(s) > 0 /\ s[1] \in {"+", "-"}
             THEN <<s[1]>> \o zeros \o Tail(s)
             ELSE zeros \o s

\* bool(data) for data a dict or None
Truthy(data) == data # None /\ DOMAIN data # {}

----------------------------------------------------------------------------
(* Time.  The clock counts ticks; datetime.isoformat() writes a date and a *)
(* time of day, datetime.fromisoformat() reads them back.                  *)

TicksPerDay == 2
MaxDay      == 31            \* the last day the cache is observed
MaxRunTicks == 1             \* ticks that pass during one run

isoformat(t)     == <<t \div TicksPerDay, t % TicksPerDay>>
fromisoformat(s) == s[1] * TicksPerDay + s[2]
timedelta(days)  == days * TicksPerDay

\* the instants the clock takes
TimePoints == {0, 1, timedelta(Days - 1), timedelta(Days), timedelta(MaxDay)}

----------------------------------------------------------------------------
(* CNPJCache (lines 14-39).  The in-memory cache is a function from keys   *)
(* to <<data, timestamp>>; the file holds kind "json" with the dumped      *)
(* entries as text, or is missing, or holds something json.load rejects.   *)

EmptyCache == <<>>

\* json.dump(self.cache, f): one [data, timestamp] array per key
json_dump(c) == {<<k, c[k][1], c[k][2]>> : k \in DOMAIN c}

\* json.load(f) of a dumped document
json_load(text) ==
    [k \in {t[1] : t \in text} |->
        LET t == CHOOSE t \in text : t[1] = k IN <<t[2], t[3]>>]

JsonFile(c) == [kind |-> "json", text |-> json_dump(c)]

\* what lines 21-22 raise: open() of a missing file raises
\* FileNotFoundError; json.load raises JSONDecodeError on text that is not
\* JSON and UnicodeDecodeError on bytes that are not text in the locale's
\* encoding
LoadError(file) ==
    CASE file.kind = "missing"      -> "FileNotFoundError"
      [] file.kind = "invalid_json" -> "JSONDecodeError"
      [] file.kind = "undecodable"  -> "UnicodeDecodeError"
      [] OTHER                      -> "none"

\* the except clause of line 23
LoadCaught == {"FileNotFoundError", "JSONDecodeError"}

\* load_cache(): [exc, cache]; exc is the exception that escapes
load_cache(file) ==
    LET e == LoadError(file)
    IN  IF e = "none" THEN [exc |-> "none", cache |-> json_load(file.text)]
        ELSE IF e \in LoadCaught THEN [exc |-> "none", cache |-> EmptyCache]
        ELSE [exc |-> e, cache |-> EmptyCache]

\* get with the window closed on the right: an entry of exactly 30 days
\* still counts as fresh
cache_get_le(c, t, key) ==
    IF key \in DOMAIN c
    THEN IF t - fromisoformat(c[key][2]) <= timedelta(Days)
         THEN c[key][1]
         ELSE None
    ELSE None

\* get(cnpj) at time t
cache_get(c, t, key) ==
    IF key \in DOMAIN c
    THEN IF t - fromisoformat(c[key][2]) < timedelta(Days)
         THEN c[key][1]
         ELSE None
    ELSE None

\* set that keeps the entry a key already has (dict.setdefault)
cache_put_keep(c, t, key, data) ==
    [k \in DOMAIN c \cup {key} |->
        IF k = key /\ key \notin DOMAIN c THEN <<data, isoformat(t)>> ELSE c[k]]

\* line 38: self.cache[cnpj] = (data, datetime.now().isoformat())
cache_put(c, t, key, data) ==
    [k \in DOMAIN c \cup {key} |->
        IF k = key THEN <<data, isoformat(t)>> ELSE c[k]]

\* save_cache(): the file after the call.  ok: open() and json.dump
\* succeed.  Otherwise OSError is raised, before anything was written
\* (trunc = FALSE) or after open() truncated the file (trunc = TRUE).
save_cache(c, file, ok, trunc) ==
    IF ok THEN JsonFile(c)
    ELSE IF trunc THEN [kind |-> "invalid_json", text |-> {}]
    ELSE file

----------------------------------------------------------------------------
(* fetch_cnpj_data (lines 90-98).  A response of the remote service is a   *)
(* transport failure, or a status code with a body that is a JSON object   *)
(* (json = TRUE, value = the object) or not JSON at all.                   *)

NoResponse == [kind |-> "none", status |-> 0, json |-> FALSE, value |-> None]

\* response.raise_for_status() raises HTTPError for 4xx and 5xx
raise_for_status(status) == status >= 400 /\ status < 600

\* the exception lines 93-95 raise, "none" if they return
FetchError(resp) ==
    IF resp.kind = "transport" THEN "ConnectionError"
    ELSE IF raise_for_status(resp.status) THEN "HTTPError"
    ELSE IF ~resp.json THEN "JSONDecodeError"
    ELSE "none"

\* line 96, except requests.RequestException: ConnectionError and
\* HTTPError are RequestExceptions; the exception of response.json() is one
\* in the requests releases that raise requests.exceptions.JSONDecodeError
\* and a bare ValueError in the earlier ones (e.json_is_request_exception)
IsRequestException(exc, e) ==
    \/ exc \in {"ConnectionError", "HTTPError"}
    \/ exc = "JSONDecodeError" /\ e.json_is_request_exception

\* fetch_cnpj_data(cnpj): [exc, data]; exc is the exception that escapes
fetch_cnpj_data(resp, e) ==
    LET x == FetchError(resp)
    IN  IF x = "none" THEN [exc |-> "none", data |-> resp.value]
        ELSE IF IsRequestException(x, e) THEN [exc |-> "none", data |-> None]
        ELSE [exc |-> x, data |-> None]

----------------------------------------------------------------------------
(* The DataFrame: [cols, rows], rows a sequence of functions cols -> cell. *)

NoFrame == [cols |-> {}, rows |-> <<>>]

\* df.at[index, key] = value (line 69); index is the 0-based row label.
\* Setting a label that is no column enlarges the frame by that column,
\* empty in the other rows.
df_at_set(frame, idx, key, value) ==
    [cols |-> frame.cols \cup {key},
     rows |-> [j \in 1..Len(frame.rows) |->
                 [c \in frame.cols \cup {key} |->
                     IF j = idx + 1 /\ c = key THEN value
                     ELSE IF c \in frame.cols THEN frame.rows[j][c]
                     ELSE NaN]]]

\* lines 67-69: for key in fields_to_update: if key in data: df.at[...] = ...
RECURSIVE merge_fields(_, _, _, _)
merge_fields(frame, idx, fields, data) ==
    IF fields = {} THEN frame
    ELSE LET key == CHOOSE k \in fields : TRUE
             f   == IF key \in DOMAIN data
                    THEN df_at_set(frame, idx, key, data[key])
                    ELSE frame
         IN  merge_fields(f, idx, fields \ {key}, data)

----------------------------------------------------------------------------
(* One iteration of the loop of run(), lines 58-72: the try body.          *)

\* line 61: if not data
Missed(hit) == ~Truthy(hit)

\* whatever the fetch returned goes to the cache
ShouldStore_always(miss, data) == miss

\* line 63: if data (after a fetch): the payload goes to the cache
ShouldStore(miss, data) == miss /\ Truthy(data)

NoLog == [level |-> "none", id |-> Unbound, msg |-> "none"]

\* The body of the try of line 58 on row idx, with the remote answering
\* resp if asked and save_cache succeeding or not (ok, trunc).  exc is the
\* exception the body raises ("none" if it runs to its end).
row_body(frame, idx, fields, c, file, t, cnpj0, resp, ok, trunc, e) ==
    LET base == [exc |-> "none", escaped |-> "none", cnpj |-> cnpj0,
                 hit |-> None,
                 fetched |-> FALSE, response |-> NoResponse,
                 fetchexc |-> "none", data |-> None, setCalled |-> FALSE,
                 cache |-> c, file |-> file, frame |-> frame, log |-> NoLog]
    IN  IF "CNPJ" \notin frame.cols
        THEN [base EXCEPT !.exc = "KeyError"]                    \* line 59
        ELSE
        LET key  == zfill(str(frame.rows[idx + 1]["CNPJ"]), PadWidth)
            hit  == cache_get(c, t, key)                         \* line 60
            miss == Missed(hit)                                  \* line 61
            f    == fetch_cnpj_data(resp, e)                     \* line 62
            b1   == [base EXCEPT !.cnpj = key, !.hit = hit, !.fetched = miss,
                                 !.response = IF miss THEN resp ELSE NoResponse]
        IN  IF miss /\ f.exc # "none"
            THEN [b1 EXCEPT !.exc = f.exc, !.fetchexc = f.exc]
            ELSE
            LET data == IF miss THEN f.data ELSE hit
                put  == ShouldStore(miss, data)                  \* line 63
                c2   == IF put THEN cache_put(c, t, key, data) ELSE c
                b2   == [b1 EXCEPT !.data = data, !.setCalled = put,
                                   !.cache = c2]
            IN  IF put /\ ~ok
                THEN [b2 EXCEPT !.exc = "OSError",               \* line 39
                                !.file = save_cache(c2, file, FALSE, trunc)]
                ELSE
                LET file2 == IF put THEN save_cache(c2, file, TRUE, FALSE)
                             ELSE file
                IN  IF Truthy(data)                              \* line 66
                    THEN [b2 EXCEPT
                            !.file  = file2,
                            !.frame = merge_fields(frame, idx, fields, data),
                            !.log   = [level |-> "info", id |-> key,
                                       msg |-> "atualizado"]]
                    ELSE [b2 EXCEPT
                            !.file = file2,
                            !.log  = [level |-> "warning", id |-> key,
                                      msg |-> "sem dados"]]

\* fetch_cnpj_data was called in the row and returned a payload (line 95)
Returned(r) == r.fetched /\ r.fetchexc = "none" /\ r.data # None

\* the handler of lines 74-75; its f-string reads the local cnpj, which is
\* unbound when line 59 raised in the first iteration: NameError escapes
row_handler(r) ==
    IF r.exc = "none" THEN r
    ELSE IF r.cnpj = Unbound THEN [r EXCEPT !.escaped = "NameError"]
    ELSE [r EXCEPT !.log = [level |-> "error", id |-> r.cnpj, msg |-> r.exc]]

----------------------------------------------------------------------------
(* The inputs the model runs on.                                           *)

MaxRows == 2                 \* rows of a spreadsheet

ShortId == <<"1", "2", "3", "4">>
IdCells == {NaN, ShortId}    \* an empty cell and a short identifier

Old == <<"o", "l", "d">>     \* what the cells to enrich hold at first

P_Acme  == [nome |-> <<"A", "c", "m", "e">>]
P_Beta  == [nome |-> <<"B", "e", "t", "a">>, uf |-> <<"S", "P">>]
P_Empty == <<>>              \* the JSON object {}
RemotePayloads == {P_Beta, P_Empty}   \* what the service answers; P_Acme is
                                      \* what an earlier run left in the file

\* spreadsheets with a CNPJ column and a column nome, or without the CNPJ
\* column
Datasets ==
    UNION {
        {[cols |-> {"CNPJ", "nome"},
          rows |-> [i \in 1..n |-> [CNPJ |-> ids[i], nome |-> Old]]]
            : ids \in [1..n -> IdCells]}
        \cup {[cols |-> {"nome"}, rows |-> [i \in 1..n |-> [nome |-> Old]]]}
        : n \in 0..MaxRows}

FieldChoices == {{"nome"}, {"nome", "uf"}}

\* the cache file before the program starts: absent, damaged, or written
\* by an earlier run at tick 0 or 1
FileContents ==
    {[kind |-> k, text |-> {}] : k \in {"missing", "invalid_json", "undecodable"}}
    \cup {JsonFile(cache_put(EmptyCache, 1, zfill(str(NaN), PadWidth), P_Acme))}
    \cup {JsonFile(cache_put(EmptyCache, t, zfill(str(ShortId), PadWidth), P_Acme))
            : t \in {0, 1}}

\* answers of the remote service: no answer, or a status and a body
Responses ==
    {[kind |-> "transport", status |-> 0, json |-> FALSE, value |-> None],
     [kind |-> "http", status |-> 404, json |-> FALSE, value |-> None],
     [kind |-> "http", status |-> 200, json |-> FALSE, value |-> None],
     [kind |-> "http", status |-> 200, json |-> TRUE, value |-> P_Beta],
     [kind |-> "http", status |-> 200, json |-> TRUE, value |-> P_Empty],
     [kind |-> "http", status |-> 300, json |-> TRUE, value |-> P_Beta]}

Envs == {[json_is_request_exception |-> b] : b \in BOOLEAN}

----------------------------------------------------------------------------
(* Paths.  A path is a sequence of pieces of text, an extension being one  *)
(* piece: "a.xlsx" is <<"a", ".xlsx">>.                                    *)

NonePath == <<"None">>       \* MainWindow.file_path before any selection
NoPath   == <<>>             \* the empty string: the dialog was cancelled
PathA    == <<"a", ".xlsx">>
PathB    == <<"b", ".xlsx">>
PathBad  == <<"c", ".xlsx">> \* a file pd.read_excel cannot read

\* s.replace(old, new): every occurrence
replace(s, old, new) == [i \in 1..Len(s) |-> IF s[i] = old THEN new ELSE s[i]]

\* line 80
output_file(path) == replace(path, ".xlsx", "_atualizado.xlsx")

\* the spreadsheets on disk the window can be pointed at
FileAt(path) ==
    IF path = PathA
    THEN [cols |-> {"CNPJ", "nome"},
          rows |-> <<[CNPJ |-> ShortId, nome |-> Old]>>]
    ELSE IF path = PathB
    THEN [cols |-> {"CNPJ", "uf"}, rows |-> <<>>]
    ELSE NoFrame

Readable(path) == path \in {PathA, PathB}

\* pd.read_excel(path) succeeds (TRUE) or raises (FALSE); it cannot succeed
\* on a path that names no spreadsheet
ReadOutcomes(path) == IF Readable(path) THEN BOOLEAN ELSE {FALSE}

\* MainWindow.__init__ (lines 101-135).  field_checkboxes maps the text of
\* each checkbox to its checked state; the buttons are TRUE when enabled.
\* History: listed_from is the path the checkboxes were built from, handled
\* the number of signals of the processor whose slots have run, runs the
\* number of processors started, in_flight the number of those whose
\* terminal signal has not been handled.
NewWindow ==
    [file_path |-> NonePath, field_checkboxes |-> <<>>,
     process_button |-> FALSE, file_button |-> TRUE,
     status_label |-> "Nenhum arquivo selecionado", progress_bar |-> 0,
     listed_from |-> NonePath, handled |-> 0, runs |-> 0, in_flight |-> 0]

----------------------------------------------------------------------------
(* History of the last step.                                               *)

NoStep ==
    [op |-> "none", index |-> 0, exc |-> "none", escaped |-> "none",
     cnpj |-> Unbound, hit |-> None, fetched |-> FALSE,
     response |-> NoResponse,
     fetchexc |-> "none", data |-> None, setCalled |-> FALSE, log |-> NoLog]

RowStep(idx, r) ==
    [op |-> "row", index |-> idx, exc |-> r.exc, escaped |-> r.escaped,
     cnpj |-> r.cnpj, hit |-> r.hit, fetched |-> r.fetched,
     response |-> r.response, fetchexc |-> r.fetchexc, data |-> r.data,
     setCalled |-> r.setCalled, log |-> r.log]

----------------------------------------------------------------------------
(* CNPJProcessor (lines 41-88)                                             *)

Progressed(v) == [sig |-> "progress_updated", value |-> v]
Finished      == [sig |-> "process_finished"]
ErrorOccurred(m) == [sig |-> "error_occurred", msg |-> m]

NoOutput == [written |-> FALSE, path |-> NoPath, frame |-> NoFrame]

Init ==
    /\ pc = "Constructing"
    /\ fields_to_update \in FieldChoices
    /\ input \in Datasets
    /\ df = NoFrame
    /\ total_rows = 0
    /\ index = 0
    /\ cnpj = Unbound
    /\ cache = EmptyCache
    /\ cache_file \in FileContents
    /\ now = timedelta(Days)
    /\ signals = <<>>
    /\ output = NoOutput
    /\ last = NoStep
    /\ env \in Envs
    /\ file_path = PathA
    /\ window = NewWindow
    /\ fetched = <<>>

\* __init__ (lines 46-50): builds the CNPJCache, which loads the file
Construct ==
    /\ pc = "Constructing"
    /\ LET r == load_cache(cache_file)
       IN  /\ cache' = r.cache
           /\ pc' = IF r.exc = "none" THEN "Loading" ELSE "Raised"
           /\ last' = [NoStep EXCEPT !.op = "construct", !.exc = r.exc]
    /\ UNCHANGED <<fields_to_update, input, df, total_rows, index, cnpj,
                   cache_file, now, signals, output, env,
                   file_path, window, fetched>>

\* a handler that lets the exception end the thread, emitting nothing
Failed_reraise(msg) ==
    /\ pc' = "Raised"
    /\ signals' = signals

\* lines 85-88: the handler of the outer try
Failed(msg) ==
    /\ pc' = "Failed"
    /\ signals' = Append(signals, ErrorOccurred(msg))

\* a failed read taken for an empty spreadsheet
LoadDataset_swallow ==
    /\ pc = "Loading"
    /\ \E ok \in ReadOutcomes(file_path) :
         /\ df' = IF ok THEN input ELSE NoFrame
         /\ total_rows' = IF ok THEN Len(input.rows) ELSE 0
         /\ pc' = IF ok /\ Len(input.rows) > 0 THEN "RowIterating" ELSE "Writing"
         /\ last' = [NoStep EXCEPT !.op = "load",
                                   !.exc = IF ok THEN "none" ELSE "read_excel"]
         /\ UNCHANGED signals
    /\ UNCHANGED <<fields_to_update, input, index, cnpj, cache, cache_file,
                   now, output, env,
                   file_path, window, fetched>>

\* lines 54-55: pd.read_excel succeeds or raises
LoadDataset ==
    /\ pc = "Loading"
    /\ \E ok \in ReadOutcomes(file_path) :
         IF ok
         THEN /\ df' = input
              /\ total_rows' = Len(input.rows)
              /\ pc' = IF Len(input.rows) = 0 THEN "Writing" ELSE "RowIterating"
              /\ last' = [NoStep EXCEPT !.op = "load"]
              /\ UNCHANGED signals
         ELSE /\ Failed("read_excel")
              /\ last' = [NoStep EXCEPT !.op = "load", !.exc = "read_excel",
                                        !.escaped = "read_excel"]
              /\ UNCHANGED <<df, total_rows>>
    /\ UNCHANGED <<fields_to_update, input, index, cnpj, cache, cache_file,
                   now, output, env,
                   file_path, window, fetched>>

\* what save_cache does when called: <<ok, trunc>>
SaveOutcomes == {<<TRUE, FALSE>>, <<FALSE, FALSE>>, <<FALSE, TRUE>>}

\* lines 57-78: one iteration, with its progress signal
ProcessRow ==
    /\ pc = "RowIterating"
    /\ index < total_rows
    /\ LET progress == Progress(index, total_rows)               \* line 77
       IN  \E resp \in Responses, sv \in SaveOutcomes :
             LET r == row_handler(row_body(df, index, fields_to_update,
                                           cache, cache_file, now, cnpj,
                                           resp, sv[1], sv[2], env))
             IN  /\ cnpj' = r.cnpj
                 /\ cache' = r.cache
                 /\ cache_file' = r.file
                 /\ df' = r.frame
                 /\ last' = RowStep(index, r)
                 /\ fetched' = IF Returned(r) THEN Append(fetched, r.cnpj)
                               ELSE fetched
                 /\ IF r.escaped # "none"
                    THEN /\ Failed(r.escaped)
                         /\ UNCHANGED index
                    ELSE /\ signals' = Append(signals, Progressed(progress))
                         /\ index' = index + 1
                         /\ pc' = IF index + 1 = total_rows THEN "Writing"
                                  ELSE "RowIterating"
    /\ UNCHANGED <<fields_to_update, input, total_rows, now, output, env,
                   file_path, window>>

\* process_finished emitted before the output is written
WriteDataset_early ==
    /\ pc = "Writing"
    /\ \E ok \in BOOLEAN :
         IF ok
         THEN /\ output' = [written |-> TRUE, path |-> output_file(file_path),
                              frame |-> df]
              /\ signals' = Append(signals, Finished)
              /\ pc' = "Completed"
              /\ last' = [NoStep EXCEPT !.op = "write"]
         ELSE /\ pc' = "Failed"
              /\ signals' = signals \o <<Finished, ErrorOccurred("to_excel")>>
              /\ last' = [NoStep EXCEPT !.op = "write", !.exc = "to_excel",
                                        !.escaped = "to_excel"]
              /\ UNCHANGED output
    /\ UNCHANGED <<fields_to_update, input, df, total_rows, index, cnpj,
                   cache, cache_file, now, env,
                   file_path, window, fetched>>

\* lines 80-83: df.to_excel succeeds or raises
WriteDataset ==
    /\ pc = "Writing"
    /\ \E ok \in BOOLEAN :
         IF ok
         THEN /\ output' = [written |-> TRUE, path |-> output_file(file_path),
                              frame |-> df]
              /\ signals' = Append(signals, Finished)
              /\ pc' = "Completed"
              /\ last' = [NoStep EXCEPT !.op = "write"]
         ELSE /\ Failed("to_excel")
              /\ last' = [NoStep EXCEPT !.op = "write", !.exc = "to_excel",
                                        !.escaped = "to_excel"]
              /\ UNCHANGED output
    /\ UNCHANGED <<fields_to_update, input, df, total_rows, index, cnpj,
                   cache, cache_file, now, env,
                   file_path, window, fetched>>

\* time passes during the run; only the cache reads the clock, so the
\* ticks that matter are those between two rows
Tick ==
    /\ pc = "RowIterating"
    /\ now < timedelta(Days) + MaxRunTicks
    /\ now' = now + 1
    /\ last' = [NoStep EXCEPT !.op = "tick"]
    /\ UNCHANGED <<pc, fields_to_update, input, df, total_rows, index, cnpj,
                   cache, cache_file, signals, output, env,
                   file_path, window, fetched>>

Next == Construct \/ LoadDataset \/ ProcessRow \/ WriteDataset \/ Tick

Spec == Init /\ [][Next]_vars

\* A step that advances run(): it leaves the state of the run or moves to
\* the next row.  (The first disjunct is an instance of the second, written
\* with every variable so that ENABLED RunStep can be computed.)
RunStep ==
    /\ pc \in {"Loading", "RowIterating", "Writing"}
    /\ \/ /\ pc' = "Failed"
          /\ UNCHANGED <<fields_to_update, input, df, total_rows, index, cnpj,
                         cache, cache_file, now, signals, output, last, env,
                         file_path, window, fetched>>
       \/ pc' # pc
       \/ index' # index

\* run() is a thread that is scheduled, and each call it makes returns or
\* raises: while the run is under way, a step that advances it is taken
SpecLive == Init /\ [][Next]_vars /\ WF_vars(RunStep)

----------------------------------------------------------------------------
(* A CNPJCache on its own: constructed from the file, then any sequence of *)
(* get and set calls while time passes.                                    *)

CacheKeys == {zfill(str(c), PadWidth) : c \in IdCells}

InitCache ==
    /\ pc = "CacheNew"
    /\ fields_to_update = {}
    /\ input = NoFrame
    /\ df = NoFrame
    /\ total_rows = 0
    /\ index = 0
    /\ cnpj = Unbound
    /\ cache = EmptyCache
    /\ cache_file \in FileContents
    /\ now = 1
    /\ signals = <<>>
    /\ output = NoOutput
    /\ last = NoStep
    /\ env = [json_is_request_exception |-> TRUE]
    /\ file_path = PathA
    /\ window = NewWindow
    /\ fetched = <<>>

\* CNPJCache.__init__ (lines 15-17)
CacheConstruct ==
    /\ pc = "CacheNew"
    /\ LET r == load_cache(cache_file)
       IN  /\ cache' = r.cache
           /\ pc' = IF r.exc = "none" THEN "CacheReady" ELSE "CacheRaised"
           /\ last' = [NoStep EXCEPT !.op = "construct", !.exc = r.exc]
    /\ UNCHANGED <<fields_to_update, input, df, total_rows, index, cnpj,
                   cache_file, now, signals, output, env,
                   file_path, window, fetched>>

\* CNPJCache.get (lines 30-35)
CacheGet ==
    /\ pc = "CacheReady"
    /\ \E key \in CacheKeys :
         last' = [NoStep EXCEPT !.op = "get", !.cnpj = key,
                                !.hit = cache_get(cache, now, key)]
    /\ UNCHANGED <<pc, fields_to_update, input, df, total_rows, index, cnpj,
                   cache, cache_file, now, signals, output, env,
                   file_path, window, fetched>>

\* CNPJCache.set (lines 37-39)
CacheSet ==
    /\ pc = "CacheReady"
    /\ \E key \in CacheKeys, data \in RemotePayloads, sv \in SaveOutcomes :
         LET c2 == cache_put(cache, now, key, data)
         IN  /\ cache' = c2
             /\ cache_file' = save_cache(c2, cache_file, sv[1], sv[2])
             /\ last' = [NoStep EXCEPT
                            !.op = "set", !.cnpj = key, !.data = data,
                            !.setCalled = TRUE,
                            !.exc = IF sv[1] THEN "none" ELSE "OSError",
                            !.escaped = IF sv[1] THEN "none" ELSE "OSError"]
    /\ UNCHANGED <<pc, fields_to_update, input, df, total_rows, index, cnpj,
                   now, signals, output, env,
                   file_path, window, fetched>>

\* time passes between two calls
CacheTick ==
    /\ pc = "CacheReady"
    /\ \E t \in TimePoints : t > now /\ now' = t
    /\ last' = [NoStep EXCEPT !.op = "tick"]
    /\ UNCHANGED <<pc, fields_to_update, input, df, total_rows, index, cnpj,
                   cache, cache_file, signals, output, env,
                   file_path, window, fetched>>

NextCache == CacheConstruct \/ CacheGet \/ CacheSet \/ CacheTick

SpecCache == InitCache /\ [][NextCache]_vars

----------------------------------------------------------------------------
(* The run over spreadsheets whose CNPJ column holds the kinds of cell     *)
(* read_excel produces, and over cache files holding an empty payload.     *)

Id14      == <<"1", "1", "2", "2", "2", "3", "3", "3", "0", "0", "0", "1", "8", "1">>
SignedId  == <<"-", "1", "2">>
IntCell   == <<"int"  , "1", "2", "3", "4">>
FloatCell == <<"float", "1", "2", "3", "4">>

\* CNPJ columns as read_excel types them: a float only in a column of
\* numbers with an empty cell
KeyColumns ==
    {<<ShortId>>, <<Id14>>, <<SignedId>>, <<IntCell>>,
     <<FloatCell, NaN>>, <<ShortId, ShortId>>}

KeyDatasets ==
    {[cols |-> {"CNPJ", "nome"},
      rows |-> [i \in 1..Len(col) |-> [CNPJ |-> col[i], nome |-> Old]]]
        : col \in KeyColumns}

\* no cache file, or one an earlier run or another tool wrote at tick 1
KeyFileContents ==
    {[kind |-> "missing", text |-> {}]}
    \cup {JsonFile(cache_put(EmptyCache, 1, zfill(str(ShortId), PadWidth), p))
            : p \in {P_Acme, P_Empty}}

InitRows ==
    /\ pc = "Constructing"
    /\ fields_to_update = {"nome"}
    /\ input \in KeyDatasets
    /\ df = NoFrame
    /\ total_rows = 0
    /\ index = 0
    /\ cnpj = Unbound
    /\ cache = EmptyCache
    /\ cache_file \in KeyFileContents
    /\ now = timedelta(Days)
    /\ signals = <<>>
    /\ output = NoOutput
    /\ last = NoStep
    /\ env = [json_is_request_exception |-> TRUE]
    /\ file_path = PathA
    /\ window = NewWindow
    /\ fetched = <<>>

SpecRows == InitRows /\ [][Next]_vars

----------------------------------------------------------------------------
(* The progress values of line 77 on their own, for spreadsheets of up to  *)
(* MaxTotalRows rows none of which makes the run fail.                     *)

MaxTotalRows == 50

InitProgress ==
    /\ pc = "Progress"
    /\ fields_to_update = {}
    /\ input = NoFrame
    /\ df = NoFrame
    /\ total_rows \in 1..MaxTotalRows
    /\ index = 0
    /\ cnpj = Unbound
    /\ cache = EmptyCache
    /\ cache_file = JsonFile(EmptyCache)
    /\ now = 1
    /\ signals = <<>>
    /\ output = NoOutput
    /\ last = NoStep
    /\ env = [json_is_request_exception |-> TRUE]
    /\ file_path = PathA
    /\ window = NewWindow
    /\ fetched = <<>>

\* lines 77-78
EmitProgress ==
    /\ pc = "Progress"
    /\ index < total_rows
    /\ signals' = Append(signals, Progressed(Progress(index, total_rows)))
    /\ index' = index + 1
    /\ last' = [NoStep EXCEPT !.op = "progress", !.index = index]
    /\ UNCHANGED <<pc, fields_to_update, input, df, total_rows, cnpj, cache,
                   cache_file, now, output, env,
                   file_path, window, fetched>>

NextProgress == EmitProgress

SpecProgress == InitProgress /\ [][NextProgress]_vars

----------------------------------------------------------------------------
(* MainWindow (lines 100-189).  The window's handlers run one at a time on *)
(* the interactive thread; the processor's run() is the worker thread, and *)
(* its signals reach the window's slots through the event queue, in the    *)
(* order they were emitted.                                                *)

MaxRuns == 2                 \* processors started in one session

\* load_fields (lines 143-161) with pd.read_excel succeeding or raising
load_fields(w, ok) ==
    IF ok
    THEN [w EXCEPT !.field_checkboxes =
                       [c \in FileAt(w.file_path).cols |-> FALSE],
                   !.listed_from = w.file_path,
                   !.process_button = TRUE]
    ELSE [w EXCEPT !.status_label = "Erro ao carregar arquivo"]

\* select_file (lines 137-141) with the dialog returning path ("" when it
\* is cancelled)
select_file(w, path, ok) ==
    LET w1 == [w EXCEPT !.file_path = path]
    IN  IF path # NoPath
        THEN load_fields([w1 EXCEPT !.status_label = "Arquivo selecionado"], ok)
        ELSE w1

\* line 164
selected_fields(w) == {c \in DOMAIN w.field_checkboxes : w.field_checkboxes[c]}

\* update_progress (lines 178-179)
update_progress(w, value) == [w EXCEPT !.progress_bar = value]

\* process_completed (lines 181-184)
process_completed(w) ==
    [w EXCEPT !.status_label = "Processamento concluido!",
              !.process_button = TRUE, !.file_button = TRUE]

\* show_error that leaves the file button as it is
show_error_keep(w, msg) ==
    [w EXCEPT !.status_label = "Erro", !.process_button = TRUE]

\* show_error (lines 186-189)
show_error(w, msg) ==
    [w EXCEPT !.status_label = "Erro",
              !.process_button = TRUE, !.file_button = TRUE]

\* the cache file when the application starts
UiFileContents ==
    {[kind |-> k, text |-> {}] : k \in {"missing", "undecodable"}}

\* an exception that escapes a slot ends the application
Alive == pc # "Raised"

InitWindow ==
    /\ pc = "Idle"
    /\ fields_to_update = {}
    /\ input = NoFrame
    /\ df = NoFrame
    /\ total_rows = 0
    /\ index = 0
    /\ cnpj = Unbound
    /\ cache = EmptyCache
    /\ cache_file \in UiFileContents
    /\ now = timedelta(Days)
    /\ signals = <<>>
    /\ output = NoOutput
    /\ last = NoStep
    /\ env = [json_is_request_exception |-> TRUE]
    /\ file_path = NonePath
    /\ window = NewWindow
    /\ fetched = <<>>

\* a click on file_button: select_file with what the dialog returns
SelectFile ==
    /\ Alive
    /\ window.file_button
    /\ \E path \in {NoPath, PathA, PathB, PathBad} :
         \E ok \in ReadOutcomes(path) :
            window' = select_file(window, path, ok)
    /\ last' = [NoStep EXCEPT !.op = "select_file"]
    /\ UNCHANGED <<pc, fields_to_update, input, df, total_rows, index, cnpj,
                   cache, cache_file, now, signals, output, env, file_path,
                   fetched>>

\* a click on one of the checkboxes
ToggleCheckbox ==
    /\ Alive
    /\ \E c \in DOMAIN window.field_checkboxes :
         window' = [window EXCEPT !.field_checkboxes[c] = ~@]
    /\ last' = [NoStep EXCEPT !.op = "toggle"]
    /\ UNCHANGED <<pc, fields_to_update, input, df, total_rows, index, cnpj,
                   cache, cache_file, now, signals, output, env, file_path,
                   fetched>>

\* lines 169-176: the processor is constructed (which loads the cache
\* file), connected and started, and the two buttons are disabled; fields
\* is the list handed to the processor
start_processor(fields) ==
    LET r == load_cache(cache_file)
    IN  IF r.exc # "none"
        THEN /\ pc' = "Raised"
             /\ last' = [NoStep EXCEPT !.op = "start_processing",
                                       !.exc = r.exc, !.escaped = r.exc]
             /\ UNCHANGED <<fields_to_update, input, df, total_rows, index,
                            cnpj, cache, signals, file_path, window, fetched>>
        ELSE /\ pc' = "Loading"
             /\ file_path' = window.file_path
             /\ fields_to_update' = fields
             /\ cache' = r.cache
             /\ input' = FileAt(window.file_path)
             /\ df' = NoFrame
             /\ total_rows' = 0
             /\ index' = 0
             /\ cnpj' = Unbound
             /\ signals' = <<>>
             /\ fetched' = <<>>
             /\ window' = [window EXCEPT !.process_button = FALSE,
                                         !.file_button = FALSE,
                                         !.handled = 0,
                                         !.runs = @ + 1,
                                         !.in_flight = @ + 1]
             /\ last' = [NoStep EXCEPT !.op = "start_processing"]

\* start_processing without the guard of lines 165-167
StartProcessing_unguarded ==
    /\ Alive
    /\ window.process_button
    /\ window.runs < MaxRuns
    /\ start_processor(selected_fields(window))
    /\ UNCHANGED <<cache_file, now, output, env>>

\* a click on process_button: start_processing (lines 163-176)
StartProcessing ==
    /\ Alive
    /\ window.process_button
    /\ IF selected_fields(window) = {}
       THEN /\ window' = [window EXCEPT !.status_label = "Por favor, selecione"]
            /\ last' = [NoStep EXCEPT !.op = "start_processing"]
            /\ UNCHANGED <<pc, fields_to_update, input, df, total_rows, index,
                           cnpj, cache, signals, file_path, fetched>>
       ELSE /\ window.runs < MaxRuns
            /\ start_processor(selected_fields(window))
    /\ UNCHANGED <<cache_file, now, output, env>>

\* the event loop runs the slot connected to the next signal of the queue
DeliverSignal ==
    /\ Alive
    /\ window.handled < Len(signals)
    /\ LET s == signals[window.handled + 1]
           w == [window EXCEPT !.handled = @ + 1]
       IN  CASE s.sig = "progress_updated" ->
                  /\ window' = update_progress(w, s.value)
                  /\ last' = [NoStep EXCEPT !.op = "update_progress"]
             [] s.sig = "process_finished" ->
                  /\ window' = process_completed([w EXCEPT !.in_flight = @ - 1])
                  /\ last' = [NoStep EXCEPT !.op = "process_completed"]
             [] s.sig = "error_occurred" ->
                  /\ window' = show_error([w EXCEPT !.in_flight = @ - 1], s.msg)
                  /\ last' = [NoStep EXCEPT !.op = "show_error"]
    /\ UNCHANGED <<pc, fields_to_update, input, df, total_rows, index, cnpj,
                   cache, cache_file, now, signals, output, env, file_path,
                   fetched>>

NextWindow ==
    \/ SelectFile \/ ToggleCheckbox \/ StartProcessing \/ DeliverSignal
    \/ LoadDataset \/ ProcessRow \/ WriteDataset

SpecWindow == InitWindow /\ [][NextWindow]_vars

----------------------------------------------------------------------------
(* Properties                                                              *)

Terminals == {"process_finished", "error_occurred"}
TerminalAt == {i \in 1..Len(signals) : signals[i].sig \in Terminals}
ProgressAt == {i \in 1..Len(signals) : signals[i].sig = "progress_updated"}
RunEnded == pc \in {"Completed", "Failed"}

\* C1: a run emits exactly one terminal signal (process_finished or
\* error_occurred), never both, and nothing after it: while the run is under
\* way no terminal signal has been emitted, once it has ended exactly one
\* has, and it is the last signal.
C1_OneTerminalSignal ==
    /\ Cardinality(TerminalAt) <= 1
    /\ RunEnded <=> Cardinality(TerminalAt) = 1
    /\ \A i \in TerminalAt : i = Len(signals)
    /\ pc = "Completed" => signals[Len(signals)].sig = "process_finished"
    /\ pc = "Failed" => signals[Len(signals)].sig = "error_occurred"

C1_Witness ==
    /\ pc = "Failed"
    /\ Len(signals) > 1
    /\ signals[1].sig = "progress_updated"

\* floor((i + 1) / n * 100) in exact arithmetic
FloorPercent(i, n) == ((i + 1) * 100) \div n

\* C2: a run over N >= 1 rows that reaches the writing step has emitted
\* exactly N progress events, each an integer in 0..100, non-decreasing, the
\* i-th (0-based) equal to floor((i+1)/N*100), the last equal to 100.
C2_ProgressValues ==
    ((pc = "Progress" /\ index = total_rows) \/ (pc = "Writing" /\ total_rows >= 1))
    => /\ Len(signals) = total_rows
       /\ \A i \in 1..Len(signals) :
            /\ signals[i].sig = "progress_updated"
            /\ signals[i].value \in 0..100
            /\ signals[i].value = FloorPercent(i - 1, total_rows)
            /\ i > 1 => signals[i - 1].value <= signals[i].value
       /\ signals[Len(signals)].value = 100

\* the identifier of row k (1-based) of a frame with a CNPJ column
KeyOfRow(frame, k) == zfill(str(frame.rows[k]["CNPJ"]), PadWidth)

\* C3: an exception raised while a row is processed, the first row
\* included, is caught by the handler of that row, logged as an error with
\* the row's identifier and the message, and the run goes on (it does not
\* end in Failed because of it).
C3_RowExceptionCaught ==
    (last.op = "row" /\ last.exc # "none")
    => /\ last.escaped = "none"
       /\ pc # "Failed"
       /\ last.log.level = "error"
       /\ last.log.msg = last.exc
       /\ "CNPJ" \in input.cols
            => last.log.id = KeyOfRow(input, last.index + 1)

\* row k of the frame holds what the spreadsheet held, and nothing in the
\* columns added since
RowUnmodified(frame, k) ==
    \A c \in frame.cols :
        frame.rows[k][c] = IF c \in input.cols THEN input.rows[k][c] ELSE NaN

EmptyIdRows ==
    IF "CNPJ" \in input.cols
    THEN {k \in 1..Len(input.rows) : input.rows[k]["CNPJ"] = NaN}
    ELSE {}

\* C4: when row k has an empty identifier, the run goes through all N rows
\* (N progress events, the last 100) and row k is unmodified, whatever the
\* cache and the remote service hold.
C4_EmptyIdRowIsolated ==
    (EmptyIdRows # {} /\ pc \in {"RowIterating", "Writing", "Completed"})
    => /\ \A k \in EmptyIdRows : RowUnmodified(df, k)
       /\ pc \in {"Writing", "Completed"}
            => /\ Cardinality(ProgressAt) = Len(input.rows)
               /\ signals[Len(input.rows)].value = 100
               /\ output.written => \A k \in EmptyIdRows :
                                        RowUnmodified(output.frame, k)

\* the age of the entry of key in ticks
Age(key) == now - (cache[key][2][1] * TicksPerDay + cache[key][2][2])

\* C5: get(id) returns the stored payload exactly when an entry for id
\* exists and is younger than 30 days (strictly); otherwise None, the
\* entry of exactly 30 days included.
C5_GetFreshOnly ==
    (pc = "CacheReady" /\ last.op = "get")
    => IF last.cnpj \in DOMAIN cache /\ Age(last.cnpj) < Days * TicksPerDay
       THEN last.hit = cache[last.cnpj][1]
       ELSE last.hit = None

\* get answered None for an entry exactly 30 days old
C5_Witness ==
    /\ pc = "CacheReady"
    /\ last.op = "get"
    /\ last.cnpj \in DOMAIN cache
    /\ Age(last.cnpj) = Days * TicksPerDay
    /\ last.hit = None

\* C6: right after set(id, payload) a get(id) returns payload, whatever was
\* stored for id before and whatever calls came before.
C6_SetThenGet ==
    (pc = "CacheReady" /\ last.op = "set" /\ last.exc = "none")
    => cache_get(cache, now, last.cnpj) = last.data

\* a set on day 30, over an entry the file brought from day 0
C6_Witness ==
    /\ pc = "CacheReady"
    /\ last.op = "set"
    /\ last.exc = "none"
    /\ last.data = P_Beta
    /\ now = timedelta(Days)
    /\ last.cnpj = zfill(ShortId, PadWidth)

\* C7: a CNPJCache constructed on a file that is missing or holds invalid
\* content is empty and the construction raises nothing; a set on it that
\* can write the file leaves the entry in the file.
C7_DamagedFileStartsEmpty ==
    /\ (last.op = "construct" /\ cache_file.kind # "json")
         => /\ last.exc = "none"
            /\ pc \notin {"CacheRaised", "Raised"}
            /\ cache = EmptyCache
    /\ (last.op = "set" /\ last.exc = "none")
         => /\ cache_file.kind = "json"
            /\ last.cnpj \in DOMAIN json_load(cache_file.text)
            /\ json_load(cache_file.text)[last.cnpj][1] = last.data

\* the step is the processing of a row whose identifier has no fresh entry
\* and for which the fetch returns None
AbsentStep ==
    /\ pc = "RowIterating"
    /\ last'.op = "row"
    /\ last'.index = index
    /\ signals' # signals
    /\ last'.hit = None
    /\ last'.fetched
    /\ last'.fetchexc = "none"
    /\ last'.data = None

\* C8: when fetch_cnpj_data returns None for a row whose identifier has no
\* fresh cache entry, the row is left as it was and the cache, in memory and
\* in the file, is left as it was: no entry is created or overwritten.
C8_AbsentChangesNothing ==
    [][AbsentStep => (df' = df /\ cache' = cache /\ cache_file' = cache_file)]_vars

\* a row whose identifier has a stale entry got None from the fetch, and
\* the stale entry is still there
C8_Witness ==
    /\ last.op = "row"
    /\ last.hit = None
    /\ last.fetched
    /\ last.fetchexc = "none"
    /\ last.data = None
    /\ last.cnpj \in DOMAIN cache
    /\ cache[last.cnpj][1] = P_Acme
    /\ df = input

\* C9: fetch_cnpj_data never raises: a transport failure, a status that is
\* not a success or a body that is not JSON gives None, and a payload is
\* returned only for a success status with a JSON body.
C9_FetchNeverRaises ==
    (last.op = "row" /\ last.fetched)
    => LET r    == last.response
           good == r.kind = "http" /\ r.status >= 200 /\ r.status < 300 /\ r.json
       IN  /\ last.fetchexc = "none"
           /\ ~good => last.data = None
           /\ good => last.data = r.value

\* C10: when reading the spreadsheet fails the run ends in Failed with the
\* error signal as its only signal (no progress event); when writing the
\* output fails the run ends in Failed with the error signal last; in both
\* cases process_finished is not emitted.
C10_LoadOrWriteFailureFails ==
    /\ (last.op = "load" /\ last.exc # "none")
         => /\ pc = "Failed"
            /\ Len(signals) = 1
            /\ signals[1].sig = "error_occurred"
            /\ signals[1].msg = last.exc
    /\ (last.op = "write" /\ last.exc # "none")
         => /\ pc = "Failed"
            /\ ~output.written
            /\ signals[Len(signals)].sig = "error_occurred"
            /\ signals[Len(signals)].msg = last.exc
            /\ \A i \in 1..Len(signals) : signals[i].sig # "process_finished"

\* the output could not be written after every row had reported progress
C10_Witness ==
    /\ last.op = "write"
    /\ last.exc # "none"
    /\ pc = "Failed"
    /\ Len(signals) = total_rows + 1
    /\ total_rows >= 1

\* where the output is to go: beside the input, its name marked as the
\* updated version before the extension
DerivedPath(path) == SubSeq(path, 1, Len(path) - 1) \o <<"_atualizado.xlsx">>

\* C11: process_finished is emitted only after the dataset has been written
\* to the derived output path, and the signal carries that path to the slot
\* that consumes it.
C11_CompletionCarriesPath ==
    \A i \in 1..Len(signals) :
        signals[i].sig = "process_finished"
        => /\ output.written
           /\ output.path = DerivedPath(file_path)
           /\ output.frame = df
           /\ "path" \in DOMAIN signals[i]
           /\ signals[i].path = output.path

\* the step is the processing of a row whose payload resolved: a fresh
\* cache hit, or a fetch that returned a payload
ResolvedStep ==
    /\ pc = "RowIterating"
    /\ last'.op = "row"
    /\ last'.index = index
    /\ last'.hit # None \/ (last'.fetched /\ last'.fetchexc = "none"
                             /\ last'.data # None)

\* the payload of a resolved row
ResolvedPayload(step) == IF step.hit # None THEN step.hit ELSE step.data

\* C12: when the payload of a row resolved, each selected field that is a
\* key of the payload is written into the row's existing column with the
\* payload's value; no other cell changes and no column is created.
C12_MergeFrameEffect ==
    [][ResolvedStep =>
         LET data == ResolvedPayload(last')
         IN  /\ df'.cols = df.cols
             /\ Len(df'.rows) = Len(df.rows)
             /\ \A j \in 1..Len(df.rows) : \A c \in df.cols :
                  df'.rows[j][c] =
                      IF j = index + 1 /\ c \in fields_to_update
                                       /\ c \in DOMAIN data
                      THEN data[c]
                      ELSE df.rows[j][c]]_vars

\* the step is start_processing run with no checkbox checked
EmptyStart ==
    /\ window.process_button
    /\ selected_fields(window) = {}
    /\ last'.op = "start_processing"

\* C13: start_processing with an empty selection is a no-op: no processor
\* is created or started, so no signal is emitted for it, and the start and
\* file-selection buttons stay as they were.
C13_EmptySelectionNoOp ==
    [][EmptyStart =>
         /\ pc' = pc
         /\ file_path' = file_path
         /\ fields_to_update' = fields_to_update
         /\ cache' = cache
         /\ signals' = signals
         /\ window'.runs = window.runs
         /\ window'.in_flight = window.in_flight
         /\ window'.handled = window.handled
         /\ window'.process_button = window.process_button
         /\ window'.file_button = window.file_button]_vars

\* start was clicked with a file listed and nothing checked, after a run
C13_Witness ==
    /\ last.op = "start_processing"
    /\ window.status_label = "Por favor, selecione"
    /\ DOMAIN window.field_checkboxes # {}
    /\ window.runs = 1
    /\ RunEnded

\* the worker thread is between the start of run() and its terminal signal
Running == pc \in {"Loading", "RowIterating", "Writing"}

\* C17: at most one run is in flight; from the start of a run until the
\* slot of its terminal signal has run both buttons are disabled, and that
\* slot enables both, whatever the interleaving of the worker with the
\* window's events.
C17_OneRunInFlight ==
    /\ window.in_flight \in {0, 1}
    /\ Running => window.in_flight = 1
    /\ window.in_flight = 1 => ~window.process_button /\ ~window.file_button
    /\ window.in_flight = 0 => window.handled = Len(signals)
    /\ last.op \in {"process_completed", "show_error"}
         => /\ window.in_flight = 0
            /\ window.process_button
            /\ window.file_button

\* a second run is under way, a signal of it waiting in the queue
C17_Witness ==
    /\ window.runs = 2
    /\ window.in_flight = 1
    /\ window.handled < Len(signals)
    /\ Running

\* C20: whenever the start button is enabled the window's file path is
\* non-empty and names the file the listed fields were read from, so a run
\* is started only on a file that loaded, with fields of that file.
C20_StartEnabledOnLoadedFile ==
    /\ window.process_button
         => /\ window.file_path \notin {NonePath, NoPath}
            /\ window.listed_from = window.file_path
            /\ DOMAIN window.field_checkboxes = FileAt(window.file_path).cols
    /\ (last.op = "start_processing" /\ pc = "Loading")
         => /\ Readable(file_path)
            /\ fields_to_update \subseteq FileAt(file_path).cols

\* the step ran Cache.get: line 59 gave it a key
GetCalled == last.op = "row" /\ "CNPJ" \in df.cols

\* C14: within a row the remote fetch is issued exactly when Cache.get
\* returned None (a hit, whatever its payload, causes no fetch), and
\* Cache.set is called exactly when that fetch returned a payload, before
\* the fields are merged into the row.
C14_FetchIffMiss ==
    GetCalled
    => /\ last.fetched <=> (last.hit = None)
       /\ last.setCalled <=> Returned(last)
       /\ (last.setCalled /\ last.exc # "none")
            => RowUnmodified(df, last.index + 1)

\* the identifier a cell holds: its text, or the digits of its number
Identifier(cell) == IF IsInt(cell) \/ IsFloat(cell) THEN Tail(cell) ELSE cell

\* an identifier left-padded with zeros to PadWidth, nothing stripped
Canonical(id) ==
    IF Len(id) >= PadWidth THEN id
    ELSE [i \in 1..(PadWidth - Len(id)) |-> "0"] \o id

\* C16: the key a row passes to Cache.get, to the fetch and to Cache.set is
\* the canonical form of the row's identifier ("1234" gives
\* "00000000001234", 14 characters are unchanged), and the key Cache.set
\* stores is that same key.
C16_CanonicalKeys ==
    (GetCalled /\ input.rows[last.index + 1]["CNPJ"] # NaN)
    => /\ last.cnpj = Canonical(Identifier(input.rows[last.index + 1]["CNPJ"]))
       /\ last.setCalled => last.cnpj \in DOMAIN cache

\* a cache constructed now from the file
Reloaded == load_cache(cache_file)

\* C15: write-through: after a successful fetch and after a completed set
\* the file holds the in-memory cache, so at every row boundary a cache
\* constructed from the file has exactly the entries of the cache in memory.
C15_WriteThrough ==
    /\ pc \in {"Loading", "RowIterating", "Writing", "Completed", "Failed"}
         => /\ Reloaded.exc = "none"
            /\ Reloaded.cache = cache
    /\ (last.op = "row" /\ last.setCalled /\ last.exc = "none")
         => cache_file = JsonFile(cache)

\* the position of a state of the run in Loading, RowIterating, Writing,
\* terminal
Rank(p) ==
    CASE p = "Loading"      -> 1
      [] p = "RowIterating" -> 2
      [] p = "Writing"      -> 3
      [] p \in {"Completed", "Failed"} -> 4
      [] OTHER              -> 0

\* C18: a run that started reaches Completed or Failed and has emitted its
\* terminal signal; its states follow the order Loading, RowIterating,
\* Writing, terminal, and a terminal state is never left.
C18_RunTerminates ==
    /\ (pc = "Loading") ~> (RunEnded /\ Cardinality(TerminalAt) = 1)
    /\ [](pc = "RowIterating" => index < total_rows)
    /\ [][/\ Rank(pc) > 0 => Rank(pc') >= Rank(pc)
          /\ RunEnded => (pc' = pc /\ signals' = signals)]_vars

\* two rows were processed and the output written
C18_Witness ==
    /\ pc = "Completed"
    /\ Len(signals) = 3
    /\ index = 2

\* the keys of a sequence
Range(seq) == {seq[i] : i \in 1..Len(seq)}

\* the step is the processing of a row
RowStepTaken ==
    /\ pc = "RowIterating"
    /\ last'.op = "row"
    /\ last'.index = index

\* C19: once a fetch for an identifier has returned a payload in a run, no
\* later row with that identifier issues a fetch, so the fetches that
\* returned a payload are at most the distinct identifiers of the
\* spreadsheet.
C19_NoRefetch ==
    [][RowStepTaken =>
         /\ last'.fetched => last'.cnpj \notin Range(fetched)
         /\ "CNPJ" \in input.cols
              => Len(fetched') <= Cardinality({KeyOfRow(input, k) :
                                                 k \in 1..Len(input.rows)})]_vars

====
